---- MODULE Spec2Model ----
(***************************************************************************)
(* PointLab Image2Model: the run pipeline of app.py (stream_run's          *)
(* process_generator and its run_cmd) and the artifact naming of           *)
(* preprocessing.py (save_image, preprocess_and_save_all_stages).          *)
(*                                                                         *)
(* A stream request is a generator: every yield is one emitted event.      *)
(* The filesystem of one run directory is shared by the requests of that   *)
(* run.  File names are sequences of characters, so that suffix, stem,     *)
(* with_suffix and sorted() are computed as pathlib and Python compute     *)
(* them.  Python values whose type varies (progress, stage_name) carry     *)
(* their type: PyInt(55), PyStr("model_converter").                        *)
(***************************************************************************)
EXTENDS Integers, Sequences, FiniteSets, TLC

(***************************************************************************)
(* Bounds of the model.                                                    *)
(***************************************************************************)
\* at most this many files in a run's images directory
MaxImages == 2
\* the external processes of a stream request print at most this many output
\* lines in all
MaxLines == 2
\* of two concurrent streams of a run, the second launches at most this many
\* external commands
MaxLaunchesSecond == 1

(***************************************************************************)
(* Python values with their dynamic type.                                  *)
(***************************************************************************)
PyInt(n) == [py |-> "int", v |-> n]
PyStr(s) == [py |-> "str", v |-> s]
PyNone == [py |-> "none", v |-> 0]

\* `if x:` on an int, a str or None
Truthy(x) ==
    CASE x.py = "int" -> x.v # 0
      [] x.py = "str" -> x.v # ""
      [] OTHER -> FALSE

\* `x or d`
PyOr(x, d) == IF Truthy(x) THEN x ELSE d

(***************************************************************************)
(* Strings as sequences of characters; str comparison is by code point.    *)
(***************************************************************************)
\* the characters of the model's file names, in ascending code point order
AsciiOrder ==
    << ".", "E", "G", "J", "P", "_", "a", "b", "d", "e", "g", "h", "i", "j",
       "m", "n", "o", "p", "r", "s" >>

Ord(c) == CHOOSE k \in 1..Len(AsciiOrder) : AsciiOrder[k] = c

\* str.lower() of one character
LowerChar(c) ==
    CASE c = "E" -> "e"
      [] c = "G" -> "g"
      [] c = "J" -> "j"
      [] c = "P" -> "p"
      [] OTHER -> c

Lower(s) == [k \in 1..Len(s) |-> LowerChar(s[k])]

\* s < t for Python str
RECURSIVE StrLess(_, _)
StrLess(s, t) ==
    IF t = << >> THEN FALSE
    ELSE IF s = << >> THEN TRUE
    ELSE IF s[1] # t[1] THEN Ord(s[1]) < Ord(t[1])
    ELSE StrLess(Tail(s), Tail(t))

\* str.rfind("."), 0-based, -1 when there is none
RFindDot(s) ==
    IF \E k \in 1..Len(s) : s[k] = "."
    THEN (CHOOSE k \in 1..Len(s) :
              s[k] = "." /\ \A j \in (k+1)..Len(s) : s[j] # ".") - 1
    ELSE -1

\* pathlib PurePath.suffix: the last dot and what follows it, unless the dot
\* is the first or the last character of the name
Suffix(name) ==
    LET i == RFindDot(name)
    IN IF 0 < i /\ i < Len(name) - 1
       THEN SubSeq(name, i + 1, Len(name))
       ELSE << >>

\* pathlib PurePath.stem
Stem(name) ==
    LET i == RFindDot(name)
    IN IF 0 < i /\ i < Len(name) - 1
       THEN SubSeq(name, 1, i)
       ELSE name

\* pathlib PurePath.with_suffix
WithSuffix(name, suffix) ==
    SubSeq(name, 1, Len(name) - Len(Suffix(name))) \o suffix

DOT_JPG == << ".", "j", "p", "g" >>
DOT_JPEG == << ".", "j", "p", "e", "g" >>
DOT_PNG == << ".", "p", "n", "g" >>
EDGES_PNG == << "_", "e", "d", "g", "e", "s" >> \o DOT_PNG
MEDIAN_PNG == << "_", "m", "e", "d", "i", "a", "n" >> \o DOT_PNG
MORPH_PNG == << "_", "m", "o", "r", "p", "h" >> \o DOT_PNG

\* sorted() of a set of names
\* the names without sorted(): some enumeration order of the directory, here
\* the descending one
RECURSIVE SortNames_Unsorted(_)
SortNames_Unsorted(S) ==
    IF S = { } THEN << >>
    ELSE LET max == CHOOSE x \in S : \A y \in S \ { x } : StrLess(y, x)
         IN << max >> \o SortNames_Unsorted(S \ { max })

RECURSIVE SortNames(_)
SortNames(S) ==
    IF S = {} THEN << >>
    ELSE LET m == CHOOSE x \in S : \A y \in S \ {x} : StrLess(x, y)
         IN << m >> \o SortNames(S \ {m})

\* seq[:n]
Take(seq, n) == SubSeq(seq, 1, IF Len(seq) < n THEN Len(seq) ELSE n)

(***************************************************************************)
(* Configuration of app.py.                                                *)
(***************************************************************************)
\* the folder keys of PREPROCESS_STAGES, in order
PREPROCESS_STAGES ==
    << "images", "histogram_equalized", "gaussian_blur", "sharpened",
       "edges", "median_filtered", "morphology", "final_processed" >>

PREPROCESS_LABELS ==
    << "Original Image", "Histogram Equalized", "Gaussian Blur", "Sharpened",
       "Edges (Canny)", "Median Filtered", "Morphological Cleaned",
       "Final Processed" >>

COLMAP_STAGES ==
    << "Feature Extraction", "Matching", "Sparse Mapping", "Model Conversion",
       "Undistortion", "Dense & Fusion" >>

\* sorted(src_dir.iterdir())[:200]
THUMB_CAP == 200

\* the folders preprocess_and_save_all_stages writes, in the order it writes
OutFolders ==
    << "histogram_equalized", "gaussian_blur", "sharpened", "edges",
       "median_filtered", "morphology", "final_processed" >>

\* the three scratch directories, in the order of the reset loop
ScratchDirs == << "database", "sparse", "dense" >>

(***************************************************************************)
(* The files an upload can have left in the images directory.  "jpg" is    *)
(* what secure_filename makes of a name such as "<non-ascii>.jpg": a file  *)
(* without a suffix.                                                       *)
(***************************************************************************)
A_JPG == << "a" >> \o DOT_JPG
A_PNG == << "a" >> \o DOT_PNG
B_JPEG == << "b", ".", "J", "P", "E", "G" >>
NO_SUFFIX == << "j", "p", "g" >>

UploadNames == { A_JPG, A_PNG, B_JPEG, NO_SUFFIX }

(***************************************************************************)
(* preprocessing.py: the names of the artifacts.                           *)
(***************************************************************************)
\* save_image: the path cv2.imwrite is given.  gray is img.ndim == 2.
SavedName(name, gray) ==
    LET ext == Lower(Suffix(name))
    IN IF gray
       THEN IF ext \notin { DOT_PNG } THEN WithSuffix(name, DOT_PNG) ELSE name
       ELSE IF ext \notin { DOT_JPG, DOT_JPEG }
            THEN WithSuffix(name, DOT_JPG)
            ELSE name

\* preprocess_and_save_all_stages: the save_image calls, in order, as
\* (folder, name argument, single-channel image)
StageWrites(in_name) ==
    LET name == in_name
        stem == Stem(in_name)
    IN << [folder |-> "histogram_equalized", name |-> name, gray |-> FALSE],
          [folder |-> "gaussian_blur", name |-> name, gray |-> FALSE],
          [folder |-> "sharpened", name |-> name, gray |-> FALSE],
          [folder |-> "edges", name |-> stem \o EDGES_PNG, gray |-> TRUE],
          [folder |-> "median_filtered", name |-> stem \o MEDIAN_PNG,
           gray |-> TRUE],
          [folder |-> "morphology", name |-> stem \o MORPH_PNG, gray |-> TRUE],
          [folder |-> "final_processed", name |-> name, gray |-> FALSE] >>

\* save_image whose cv2.imwrite writes nothing: the folder is made, no file
WriteFile_MkdirOnly(dir, fname, src) ==
    [exists |-> TRUE, files |-> dir.files]

\* a directory after cv2.imwrite of a file derived from image src: a file of
\* that name is replaced
WriteFile(dir, fname, src) ==
    [exists |-> TRUE,
     files |-> { f \in dir.files : f.name # fname }
                  \cup { [name |-> fname, src |-> src] }]

\* the output folders after the first k save_image calls for image in_name
RECURSIVE SaveStages(_, _, _)
SaveStages(o, in_name, k) ==
    IF k = 0 THEN o
    ELSE LET prev == SaveStages(o, in_name, k - 1)
             w == StageWrites(in_name)[k]
         IN [prev EXCEPT ![w.folder] =
                 WriteFile(prev[w.folder], SavedName(w.name, w.gray), in_name)]

(***************************************************************************)
(* app.py: stream_run.                                                     *)
(***************************************************************************)
\* line 190: the suffixes of the images a run processes
IsImage(name) == Lower(Suffix(name)) \in { DOT_JPG, DOT_JPEG, DOT_PNG }

\* line 203: int(2 + 18 * (i / total_images)); the float expression equals
\* this integer one for every 1 <= i <= total_images < 60
PreprocessProgress(i, total) == 2 + ((18 * i) \div total)

\* the run_cmd calls of process_generator, in order: the subcommand and the
\* positional and keyword arguments as run_cmd's parameters receive them
RunCmdCalls ==
    << [cmd |-> "feature_extractor", progress_start |-> PyInt(22),
        progress_end |-> PyInt(30),
        colmap_stage_name |-> PyStr(COLMAP_STAGES[1])],
       [cmd |-> "exhaustive_matcher", progress_start |-> PyInt(30),
        progress_end |-> PyInt(40),
        colmap_stage_name |-> PyStr(COLMAP_STAGES[2])],
       [cmd |-> "mapper", progress_start |-> PyInt(40),
        progress_end |-> PyInt(55),
        colmap_stage_name |-> PyStr(COLMAP_STAGES[3])],
       \* run_cmd(converter_cmd, "model_converter", 55, 58)
       [cmd |-> "model_converter", progress_start |-> PyStr("model_converter"),
        progress_end |-> PyInt(55), colmap_stage_name |-> PyInt(58)],
       [cmd |-> "image_undistorter", progress_start |-> PyInt(58),
        progress_end |-> PyInt(65),
        colmap_stage_name |-> PyStr(COLMAP_STAGES[5])],
       [cmd |-> "patch_match_stereo", progress_start |-> PyInt(65),
        progress_end |-> PyInt(85),
        colmap_stage_name |-> PyStr(COLMAP_STAGES[6])],
       [cmd |-> "stereo_fusion", progress_start |-> PyInt(85),
        progress_end |-> PyInt(95),
        colmap_stage_name |-> PyStr("Fusion (dense)")] >>

NumCmds == Len(RunCmdCalls)

\* ev.get(key, "")
EvGet(ev, key) == IF key \in DOMAIN ev THEN ev[key] ELSE ""

\* line 328's test after every loop's yield
CallerReturns_StageKey(c, ev) == EvGet(ev, "stage") = "error"

\* the test after `yield ev` in the loop over the c-th run_cmd call: TRUE
\* when process_generator returns.  Line 328 tests
\* ev.get("stage", "").startswith("error"); the only value of a "stage"
\* field in this program is "error".
CallerReturns(c, ev) ==
    IF RunCmdCalls[c].cmd = "model_converter"
    THEN EvGet(ev, "stage") = "error"
    ELSE EvGet(ev, "type") = "error"

\* where process_generator continues when the loop over the c-th run_cmd call
\* ends
AfterCmd(c) ==
    CASE RunCmdCalls[c].cmd = "mapper" -> "discover1"
      [] RunCmdCalls[c].cmd = "stereo_fusion" -> "check_fused"
      [] OTHER -> "launch"

(***************************************************************************)
(* The external tool is a black box: what a subcommand may leave in the    *)
(* scratch directories when it exits, as directory entries in the order    *)
(* iterdir() lists them.                                                   *)
(***************************************************************************)
Dir(n) == [name |-> n, isdir |-> TRUE]
File(n) == [name |-> n, isdir |-> FALSE]

MapperOutcomes ==
    { << >>, << Dir("0") >>, << Dir("1"), Dir("2") >>, << Dir("2"), Dir("1") >>,
      << File("0") >>, << File("project.ini"), Dir("1") >> }

\* (scratch directory, entries written) the subcommand may produce
ToolEffects(cmd) ==
    CASE cmd = "feature_extractor" ->
             { [dir |-> "database", entries |-> << File("database.db") >>] }
      [] cmd = "mapper" ->
             { [dir |-> "sparse", entries |-> m] : m \in MapperOutcomes }
      [] cmd = "image_undistorter" ->
             { [dir |-> "dense", entries |-> << Dir("stereo") >>] }
      [] cmd = "stereo_fusion" ->
             { [dir |-> "dense", entries |-> << >>],
               [dir |-> "dense", entries |-> << File("fused.ply") >>] }
      [] OTHER -> { [dir |-> "dense", entries |-> << >>] }

EntryNames(d) == { d.entries[k].name : k \in 1..Len(d.entries) }

\* entries e written into directory d: nothing when d is absent; an entry of
\* the same name is kept in its place
RECURSIVE AddEntries(_, _)
AddEntries(d, e) ==
    IF e = << >> \/ ~d.exists THEN d
    ELSE AddEntries(
             IF e[1].name \in EntryNames(d) THEN d
             ELSE [d EXCEPT !.entries = Append(@, e[1])],
             Tail(e))

\* Path.exists() of scratch directory d's child n
ChildExists(d, n) == d.exists /\ n \in EntryNames(d)

\* [p for p in d.iterdir() if p.is_dir()], as names
SubDirs(d) ==
    LET RECURSIVE F(_)
        F(e) == IF e = << >> THEN << >>
                ELSE IF e[1].isdir THEN << e[1].name >> \o F(Tail(e))
                ELSE F(Tail(e))
    IN F(d.entries)

EmptyDir == [exists |-> TRUE, entries |-> << >>]
NoDir == [exists |-> FALSE, entries |-> << >>]

\* what an earlier stream of the same run has left in the scratch directories
StaleScratch ==
    [database |-> [exists |-> TRUE, entries |-> << File("database.db") >>],
     sparse |-> [exists |-> TRUE, entries |-> << Dir("0"), Dir("0_txt") >>],
     dense |-> [exists |-> TRUE,
                entries |-> << Dir("stereo"), File("fused.ply") >>]]

FreshScratch == [database |-> NoDir, sparse |-> NoDir, dense |-> NoDir]

(***************************************************************************)
(* State.  The filesystem of the run directory is shared; the rest is the  *)
(* local state of each stream request (one process_generator each).        *)
(***************************************************************************)
VARIABLES
    reqs,          \* the stream requests of the run
    imagesDir,     \* run_dir/images: the names of its files
    corrupt,       \* the image files load_image cannot decode
    out,           \* out_root/<folder> of each preprocessing folder
    scratch,       \* out_root/database, out_root/sparse, out_root/dense
    pc,            \* where each generator stands
    events,        \* the events each generator has yielded, in order
    image_paths,   \* line 190
    i,             \* the images the loop of line 197 has gone through
    stage_k,       \* the stages the loop of line 213 has gone through
    reset_k,       \* the directories the loop of line 244 has gone through
    cmd,           \* the index in RunCmdCalls of the current run_cmd call
    proc,          \* the subprocess of the current run_cmd call
    model_index,   \* the sparse model discovery selected (a name under sparse)
    preprocessed,  \* history: the images given to the image stage pipeline
    launched,      \* history: the subcommands launched (Popen), in order
    exited,        \* history: (subcommand, exit code) of each proc.wait()
    fused_seen,    \* history: what fused_ply.exists() returned
    quota          \* the output lines the request's processes may yet print

vars ==
    << reqs, imagesDir, corrupt, out, scratch, pc, events, image_paths, i,
       stage_k, reset_k, cmd, proc, model_index, preprocessed, launched,
       exited, fused_seen, quota >>

fsvars == << imagesDir, corrupt, out, scratch >>

OutFolderSet == { OutFolders[k] : k \in 1..Len(OutFolders) }

NoProc == [alive |-> FALSE, lines |-> 0, pending |-> 0, rc |-> 0]

InitLocal ==
    /\ pc = [p \in reqs |-> "queued"]
    /\ events = [p \in reqs |-> << >>]
    /\ image_paths = [p \in reqs |-> << >>]
    /\ i = [p \in reqs |-> 0]
    /\ stage_k = [p \in reqs |-> 0]
    /\ reset_k = [p \in reqs |-> 0]
    /\ cmd = [p \in reqs |-> 0]
    /\ proc = [p \in reqs |-> NoProc]
    /\ model_index = [p \in reqs |-> PyNone]
    /\ preprocessed = [p \in reqs |-> << >>]
    /\ launched = [p \in reqs |-> << >>]
    /\ exited = [p \in reqs |-> << >>]
    /\ fused_seen = [p \in reqs |-> "unchecked"]

\* upload_files has saved at least one file (line 122) under the run's images
\* directory; no stream of the run has started
Init ==
    /\ reqs = { 1 }
    /\ imagesDir \in { S \in SUBSET UploadNames :
                         1 <= Cardinality(S) /\ Cardinality(S) <= MaxImages }
    /\ corrupt \in SUBSET { n \in imagesDir : IsImage(n) }
    /\ out = [f \in OutFolderSet |-> [exists |-> FALSE, files |-> {}]]
    /\ scratch \in { FreshScratch, StaleScratch }
    /\ quota = [p \in reqs |-> MaxLines]
    /\ InitLocal

(***************************************************************************)
(* Events.  A message is its literal text followed by the values            *)
(* formatted into it.                                                      *)
(***************************************************************************)
Status(msg, progress) ==
    [type |-> "status", message |-> msg, progress |-> progress]

ErrorEvent(msg, progress) ==
    [type |-> "error", message |-> msg, progress |-> progress]

\* a URL under /runs/<run_id>/
Ref(folder, name) == [folder |-> folder, name |-> name]

Yield(p, ev) == events' = [events EXCEPT ![p] = Append(@, ev)]

total_images(p) == Len(image_paths[p])

(***************************************************************************)
(* process_generator: preprocessing, lines 186-235.                        *)
(***************************************************************************)
\* line 186
Queued(p) ==
    /\ pc[p] = "queued"
    /\ Yield(p, Status(<< "Run queued" >>, PyInt(0)))
    /\ pc' = [pc EXCEPT ![p] = "starting"]
    /\ UNCHANGED << reqs, fsvars, image_paths, i, stage_k, reset_k, cmd, proc,
                    model_index, preprocessed, launched, exited, fused_seen,
                    quota >>

\* line 187
StartPreprocessing(p) ==
    /\ pc[p] = "starting"
    /\ Yield(p, Status(<< "Starting preprocessing..." >>, PyInt(2)))
    /\ pc' = [pc EXCEPT ![p] = "collect"]
    /\ UNCHANGED << reqs, fsvars, image_paths, i, stage_k, reset_k, cmd, proc,
                    model_index, preprocessed, launched, exited, fused_seen,
                    quota >>

\* lines 190-194
CollectImages(p) ==
    /\ pc[p] = "collect"
    /\ LET paths == SortNames({ n \in imagesDir : IsImage(n) })
       IN /\ image_paths' = [image_paths EXCEPT ![p] = paths]
          /\ IF Len(paths) = 0
             THEN /\ Yield(p, ErrorEvent(<< "No images found" >>, PyInt(0)))
                  /\ pc' = [pc EXCEPT ![p] = "end"]
             ELSE /\ pc' = [pc EXCEPT ![p] = "preprocess"]
                  /\ UNCHANGED events
    /\ UNCHANGED << reqs, fsvars, i, stage_k, reset_k, cmd, proc, model_index,
                    preprocessed, launched, exited, fused_seen, quota >>

\* the except branch without its return: the loop over the images is left
\* and the run goes on
AfterPreprocessFailure_NoReturn == "pre_complete"

\* lines 206-208: where the generator goes when
\* preprocess_and_save_all_stages raised
AfterPreprocessFailure == "end"

\* a load_image that swallows its decoding error
LoadImageRaises_Never(name) == FALSE

\* preprocessing.py load_image: Image.open raises on a file that does not
\* decode
LoadImageRaises(name) == name \in corrupt

\* lines 200-205
PreprocessImageEvent(name, n, total) ==
    [type |-> "preprocess_image",
     message |-> << "Preprocessed", name, n, total >>,
     progress |-> PyInt(PreprocessProgress(n, total)),
     image |-> Ref("final_processed", name)]

\* lines 197-208, one iteration: preprocess_and_save_all_stages either returns
\* after its seven save_image calls, or raises: in load_image when the file
\* does not decode, or in a save_image (mkdir, imwrite) after k of them
PreprocessImage(p) ==
    /\ pc[p] = "preprocess"
    /\ LET n == i[p] + 1
           img_path == image_paths[p][n]
       IN \E k \in 0..Len(OutFolders) :
            /\ LoadImageRaises(img_path) => k = 0
            /\ out' = SaveStages(out, img_path, k)
            /\ preprocessed' = [preprocessed EXCEPT ![p] = Append(@, img_path)]
            /\ IF k = Len(OutFolders)
               THEN /\ Yield(p, PreprocessImageEvent(img_path, n,
                                                     total_images(p)))
                    /\ i' = [i EXCEPT ![p] = n]
                    /\ pc' = [pc EXCEPT ![p] =
                                 IF n = total_images(p) THEN "pre_complete"
                                 ELSE "preprocess"]
               ELSE /\ Yield(p, ErrorEvent(<< "Preprocessing failed" >>,
                                           PyInt(0)))
                    /\ pc' = [pc EXCEPT ![p] = AfterPreprocessFailure]
                    /\ UNCHANGED i
    /\ UNCHANGED << reqs, imagesDir, corrupt, scratch, image_paths, stage_k,
                    reset_k, cmd, proc, model_index, launched, exited,
                    fused_seen, quota >>

\* line 211
PreprocessingComplete(p) ==
    /\ pc[p] = "pre_complete"
    /\ Yield(p, Status(<< "Preprocessing complete" >>, PyInt(20)))
    /\ pc' = [pc EXCEPT ![p] = "stage_done"]
    /\ UNCHANGED << reqs, fsvars, image_paths, i, stage_k, reset_k, cmd, proc,
                    model_index, preprocessed, launched, exited, fused_seen,
                    quota >>

\* lines 214-226: the thumbnails of one preprocessing folder
Thumbs(folder) ==
    LET names == IF folder = "images" THEN imagesDir
                 ELSE IF out[folder].exists
                      THEN { f.name : f \in out[folder].files }
                      ELSE {}
        listed == Take(SortNames(names), THUMB_CAP)
    IN [k \in 1..Len(listed) |-> Ref(folder, listed[k])]

\* lines 213-235, one iteration
EmitStageDone(p) ==
    /\ pc[p] = "stage_done"
    /\ LET k == stage_k[p] + 1
       IN /\ Yield(p, [type |-> "stage_done", group |-> "preprocessing",
                       stage_name |-> PyStr(PREPROCESS_LABELS[k]),
                       stage_key |-> PREPROCESS_STAGES[k],
                       progress |-> PyInt(20),
                       thumbs |-> Thumbs(PREPROCESS_STAGES[k])])
          /\ stage_k' = [stage_k EXCEPT ![p] = k]
          /\ pc' = [pc EXCEPT ![p] =
                       IF k = Len(PREPROCESS_STAGES) THEN "prepare"
                       ELSE "stage_done"]
    /\ UNCHANGED << reqs, fsvars, image_paths, i, reset_k, cmd, proc,
                    model_index, preprocessed, launched, exited, fused_seen,
                    quota >>

(***************************************************************************)
(* process_generator: the COLMAP workspace, lines 238-252.                 *)
(***************************************************************************)
\* line 238
PrepareWorkspace(p) ==
    /\ pc[p] = "prepare"
    /\ Yield(p, Status(<< "Preparing COLMAP workspace..." >>, PyInt(22)))
    /\ pc' = [pc EXCEPT ![p] = "reset"]
    /\ UNCHANGED << reqs, fsvars, image_paths, i, stage_k, reset_k, cmd, proc,
                    model_index, preprocessed, launched, exited, fused_seen,
                    quota >>

\* mkdir(exist_ok=True) alone: what the directory holds stays
ResetDir_KeepContents(d) == [exists |-> TRUE, entries |-> d.entries]

\* lines 245-247: shutil.rmtree(p) when p exists, then p.mkdir
ResetDir(d) == IF d.exists THEN EmptyDir ELSE EmptyDir

\* lines 244-247, one iteration of the loop over the three directories
ResetScratchDir(p) ==
    /\ pc[p] = "reset"
    /\ LET k == reset_k[p] + 1
       IN /\ scratch' = [scratch EXCEPT ![ScratchDirs[k]] = ResetDir(@)]
          /\ reset_k' = [reset_k EXCEPT ![p] = k]
          /\ pc' = [pc EXCEPT ![p] =
                       IF k = Len(ScratchDirs) THEN "check_final" ELSE "reset"]
    /\ UNCHANGED << reqs, imagesDir, corrupt, out, events, image_paths, i,
                    stage_k, cmd, proc, model_index, preprocessed, launched,
                    exited, fused_seen, quota >>

\* lines 249-252
CheckFinalProcessed(p) ==
    /\ pc[p] = "check_final"
    /\ IF ~out["final_processed"].exists
       THEN /\ Yield(p, ErrorEvent(<< "final_processed folder missing" >>,
                                   PyInt(0)))
            /\ pc' = [pc EXCEPT ![p] = "end"]
            /\ UNCHANGED cmd
       ELSE /\ pc' = [pc EXCEPT ![p] = "launch"]
            /\ cmd' = [cmd EXCEPT ![p] = 1]
            /\ UNCHANGED events
    /\ UNCHANGED << reqs, fsvars, image_paths, i, stage_k, reset_k, proc,
                    model_index, preprocessed, launched, exited, fused_seen,
                    quota >>

(***************************************************************************)
(* run_cmd, lines 254-270, driven by the loops `for ev in run_cmd(...):    *)
(* yield ev; if <error test>: return` of process_generator.                *)
(***************************************************************************)
\* an event of the current run_cmd call is yielded to the stream, and the
\* caller's test after the yield decides whether process_generator returns or
\* resumes run_cmd at resume
YieldFromRunCmd(p, ev, resume) ==
    /\ Yield(p, ev)
    /\ pc' = [pc EXCEPT ![p] = IF CallerReturns(cmd[p], ev) THEN "end"
                               ELSE resume]

\* lines 320-325 and 332-338: the --input_path of the command list, as the
\* name under sparse_dir that model_index holds; the other commands have none
InputPath(c, mi) ==
    IF c \in { "model_converter", "image_undistorter" } THEN mi ELSE PyNone

\* line 255: the message joins the command list, of which the subcommand and
\* the --input_path are kept
Launch(p) ==
    /\ pc[p] = "launch"
    /\ LET call == RunCmdCalls[cmd[p]]
       IN /\ YieldFromRunCmd(p,
                Status(<< "Running:", call.cmd,
                          InputPath(call.cmd, model_index[p]) >>,
                       call.progress_start), "popen")
    /\ UNCHANGED << reqs, fsvars, image_paths, i, stage_k, reset_k, cmd, proc,
                    model_index, preprocessed, launched, exited, fused_seen,
                    quota >>

\* line 256: the process will print n lines and exit; none is read yet
Popen(p) ==
    /\ pc[p] = "popen"
    /\ \E n \in 0..quota[p] :
         /\ proc' = [proc EXCEPT ![p] =
                         [alive |-> TRUE, lines |-> n, pending |-> n,
                          rc |-> 0]]
         /\ quota' = [quota EXCEPT ![p] = @ - n]
    /\ launched' = [launched EXCEPT ![p] = Append(@, RunCmdCalls[cmd[p]].cmd)]
    /\ pc' = [pc EXCEPT ![p] = "reading"]
    /\ UNCHANGED << reqs, fsvars, events, image_paths, i, stage_k, reset_k,
                    cmd, model_index, preprocessed, exited, fused_seen >>

\* the external process exits with some exit code, having written what the
\* subcommand may write; its unread output stays in the pipe
ProcessExits(p) ==
    /\ proc[p].alive
    /\ \E rc \in { 0, 1 }, eff \in ToolEffects(RunCmdCalls[cmd[p]].cmd) :
         /\ proc' = [proc EXCEPT ![p].alive = FALSE, ![p].rc = rc]
         /\ scratch' = [scratch EXCEPT ![eff.dir] = AddEntries(@, eff.entries)]
    /\ UNCHANGED << reqs, imagesDir, corrupt, out, pc, events, image_paths, i,
                    stage_k, reset_k, cmd, model_index, preprocessed, launched,
                    exited, fused_seen, quota >>

\* the log event of the k-th line a process printed, at progress_end
LogEvent_AtEnd(call, k) ==
    [type |-> "log", message |-> << "line", k >>,
     progress |-> call.progress_end]

\* line 262: the log event of the k-th line the process printed
LogEvent(call, k) ==
    [type |-> "log", message |-> << "line", k >>,
     progress |-> call.progress_start]

\* lines 258-262: readline returns the oldest unread line
ReadLine(p) ==
    /\ pc[p] = "reading"
    /\ proc[p].pending > 0
    /\ proc' = [proc EXCEPT ![p].pending = @ - 1]
    /\ YieldFromRunCmd(p, LogEvent(RunCmdCalls[cmd[p]],
                                   proc[p].lines - proc[p].pending + 1),
                       "reading")
    /\ UNCHANGED << reqs, fsvars, image_paths, i, stage_k, reset_k, cmd,
                    model_index, preprocessed, launched, exited, fused_seen,
                    quota >>

\* where process_generator stands once the loop over the c-th run_cmd call is
\* over
LoopOver(p, c) ==
    /\ pc' = [pc EXCEPT ![p] = AfterCmd(c)]
    /\ cmd' = [cmd EXCEPT ![p] = IF AfterCmd(c) = "launch" THEN c + 1 ELSE c]

\* the loop is left on end of output alone, rc read from poll()
LoopBreaks_NoWait(pr) == pr.pending = 0

\* the loop tests proc.returncode, which nothing has set before wait()
LoopBreaks_StaleReturncode(pr) == FALSE

\* lines 259-260 and 263: readline returns "" (no unread line is left) and
\* the process has exited
LoopBreaks(pr) == pr.pending = 0 /\ ~pr.alive

\* lines 259-268: readline returns "" and the process has exited; rc =
\* proc.wait(); the error event, or the stage_done event
ProcessWaited(p) ==
    /\ pc[p] = "reading"
    /\ LoopBreaks(proc[p])
    /\ LET call == RunCmdCalls[cmd[p]]
           rc == proc[p].rc
           err == ErrorEvent(<< "Command exited with code", call.cmd, rc >>,
                             call.progress_start)
       IN /\ exited' = [exited EXCEPT ![p] =
                            Append(@, [cmd |-> call.cmd, rc |-> rc,
                                       lines |-> proc[p].lines])]
          /\ IF rc # 0
             THEN \* line 265; when the caller resumes run_cmd it returns False
                  \* (line 266) and the caller's loop is over
                  /\ Yield(p, err)
                  /\ IF CallerReturns(cmd[p], err)
                     THEN /\ pc' = [pc EXCEPT ![p] = "end"]
                          /\ UNCHANGED cmd
                     ELSE LoopOver(p, cmd[p])
             ELSE IF Truthy(call.colmap_stage_name)
             THEN /\ YieldFromRunCmd(p,
                         [type |-> "stage_done", group |-> "colmap",
                          stage_name |-> call.colmap_stage_name,
                          progress |-> call.progress_end], "finished")
                  /\ UNCHANGED cmd
             ELSE /\ pc' = [pc EXCEPT ![p] = "finished"]
                  /\ UNCHANGED << events, cmd >>
    /\ UNCHANGED << reqs, fsvars, image_paths, i, stage_k, reset_k, proc,
                    model_index, preprocessed, launched, fused_seen, quota >>

\* lines 269-270: the status event; run_cmd returns True and the caller's
\* loop is over
CommandFinished(p) ==
    /\ pc[p] = "finished"
    /\ LET call == RunCmdCalls[cmd[p]]
           ev == Status(<< "finished",
                           PyOr(call.colmap_stage_name, PyStr("command")) >>,
                         call.progress_end)
       IN /\ Yield(p, ev)
          /\ IF CallerReturns(cmd[p], ev)
             THEN /\ pc' = [pc EXCEPT ![p] = "end"]
                  /\ UNCHANGED cmd
             ELSE LoopOver(p, cmd[p])
    /\ UNCHANGED << reqs, fsvars, image_paths, i, stage_k, reset_k, proc,
                    model_index, preprocessed, launched, exited, fused_seen,
                    quota >>

(***************************************************************************)
(* process_generator: model discovery, lines 290-318.                      *)
(***************************************************************************)
\* lines 291-296: the first subdirectory iterdir() lists, else "0"
FirstPassModel(d) ==
    LET top_models == SubDirs(d)
    IN IF top_models # << >> THEN top_models[1] ELSE "0"

\* the hardcoded path sparse/0
SecondPassModel_Zero(d) == "0"

\* lines 303-312: the first listed entry that is a directory and, when there
\* is none (or it does not exist), "0"
SecondPassModel(d) ==
    LET top_models == SubDirs(d)
        first == IF top_models # << >> THEN PyStr(top_models[1]) ELSE PyNone
    IN IF first = PyNone \/ ~ChildExists(d, first.v) THEN "0" ELSE first.v

\* lines 291-300; iterdir() of a missing directory raises, which ends the
\* generator without an event
DiscoverFirstPass(p) ==
    /\ pc[p] = "discover1"
    /\ IF ~scratch["sparse"].exists
       THEN /\ pc' = [pc EXCEPT ![p] = "raised"]
            /\ UNCHANGED << events, model_index >>
       ELSE LET m == FirstPassModel(scratch["sparse"])
            IN /\ model_index' = [model_index EXCEPT ![p] = PyStr(m)]
               /\ IF ~ChildExists(scratch["sparse"], m)
                  THEN /\ Yield(p, ErrorEvent(
                                << "No sparse model found after mapper" >>,
                                PyInt(55)))
                       /\ pc' = [pc EXCEPT ![p] = "end"]
                  ELSE /\ pc' = [pc EXCEPT ![p] = "discover2"]
                       /\ UNCHANGED events
    /\ UNCHANGED << reqs, fsvars, image_paths, i, stage_k, reset_k, cmd, proc,
                    preprocessed, launched, exited, fused_seen, quota >>

\* lines 303-315
DiscoverSecondPass(p) ==
    /\ pc[p] = "discover2"
    /\ IF ~scratch["sparse"].exists
       THEN /\ pc' = [pc EXCEPT ![p] = "raised"]
            /\ UNCHANGED << events, model_index >>
       ELSE LET m == SecondPassModel(scratch["sparse"])
            IN /\ model_index' = [model_index EXCEPT ![p] = PyStr(m)]
               /\ IF ~ChildExists(scratch["sparse"], m)
                  THEN /\ Yield(p, [stage |-> "error",
                                    message |->
                                      << "No sparse model found after mapper" >>,
                                    progress |-> PyInt(55)])
                       /\ pc' = [pc EXCEPT ![p] = "end"]
                  ELSE /\ pc' = [pc EXCEPT ![p] = "mkdir_txt"]
                       /\ UNCHANGED events
    /\ UNCHANGED << reqs, fsvars, image_paths, i, stage_k, reset_k, cmd, proc,
                    preprocessed, launched, exited, fused_seen, quota >>

\* lines 317-318: mkdir(parents=True, exist_ok=True) of sparse/0_txt
MakeConverterOut(p) ==
    /\ pc[p] = "mkdir_txt"
    /\ scratch' = [scratch EXCEPT !["sparse"] =
                       AddEntries([@ EXCEPT !.exists = TRUE],
                                  << Dir("0_txt") >>)]
    /\ pc' = [pc EXCEPT ![p] = "launch"]
    /\ cmd' = [cmd EXCEPT ![p] = @ + 1]
    /\ UNCHANGED << reqs, imagesDir, corrupt, out, events, image_paths, i,
                    stage_k, reset_k, proc, model_index, preprocessed,
                    launched, exited, fused_seen, quota >>

(***************************************************************************)
(* process_generator: the point cloud, lines 369-374.                      *)
(***************************************************************************)
\* the success event with the progress of the fusion stage
DoneEvent_At95 ==
    [type |-> "done", message |-> << "Reconstruction complete" >>,
     progress |-> PyInt(95), fused_ply |-> Ref("dense", "fused.ply")]

\* line 371
DoneEvent ==
    [type |-> "done", message |-> << "Reconstruction complete" >>,
     progress |-> PyInt(100), fused_ply |-> Ref("dense", "fused.ply")]

CheckFused(p) ==
    /\ pc[p] = "check_fused"
    /\ LET found == ChildExists(scratch["dense"], "fused.ply")
       IN /\ fused_seen' = [fused_seen EXCEPT ![p] =
                                IF found THEN "found" ELSE "missing"]
          /\ IF found
             THEN Yield(p, DoneEvent)
             ELSE Yield(p, ErrorEvent(<< "fused.ply not found after fusion" >>,
                                      PyInt(95)))
    /\ pc' = [pc EXCEPT ![p] = "end"]
    /\ UNCHANGED << reqs, fsvars, image_paths, i, stage_k, reset_k, cmd, proc,
                    model_index, preprocessed, launched, exited, quota >>

(***************************************************************************)
(* The specification: every step is a step of one request's generator or   *)
(* of its external process.                                                *)
(***************************************************************************)
Next ==
    \/ \E p \in reqs : Queued(p)
    \/ \E p \in reqs : StartPreprocessing(p)
    \/ \E p \in reqs : CollectImages(p)
    \/ \E p \in reqs : PreprocessImage(p)
    \/ \E p \in reqs : PreprocessingComplete(p)
    \/ \E p \in reqs : EmitStageDone(p)
    \/ \E p \in reqs : PrepareWorkspace(p)
    \/ \E p \in reqs : ResetScratchDir(p)
    \/ \E p \in reqs : CheckFinalProcessed(p)
    \/ \E p \in reqs : Launch(p)
    \/ \E p \in reqs : Popen(p)
    \/ \E p \in reqs : ProcessExits(p)
    \/ \E p \in reqs : ReadLine(p)
    \/ \E p \in reqs : ProcessWaited(p)
    \/ \E p \in reqs : CommandFinished(p)
    \/ \E p \in reqs : DiscoverFirstPass(p)
    \/ \E p \in reqs : DiscoverSecondPass(p)
    \/ \E p \in reqs : MakeConverterOut(p)
    \/ \E p \in reqs : CheckFused(p)

Spec == Init /\ [][Next]_vars

(***************************************************************************)
(* Vocabulary of the properties.                                           *)
(***************************************************************************)
HasType(ev, t) == EvGet(ev, "type") = t

IsTerminal(ev) == HasType(ev, "done") \/ HasType(ev, "error")

IsNumber(x) == x.py = "int"

\* the generator has finished: it returned, or an exception ended it
Ended(p) == pc[p] \in { "end", "raised" }

Indexes(p) == 1..Len(events[p])

\* the number of image files of the run
NumImages == Cardinality({ n \in imagesDir : IsImage(n) })

\* event k of request p is the error event of a failed image
IsPreprocessFailure(ev) ==
    HasType(ev, "error") /\ ev.message[1] = "Preprocessing failed"

PreprocessFailed(p) ==
    \E k \in Indexes(p) : IsPreprocessFailure(events[p][k])

\* proc.wait() of subcommand c returned rc in request p
ExitedWith(p, c, rc) ==
    \E k \in 1..Len(exited[p]) :
        exited[p][k].cmd = c /\ exited[p][k].rc = rc

(***************************************************************************)
(* C1.  In every run's event stream exactly one terminal event (done or    *)
(* error) is emitted, and no event is emitted after it: a terminal event   *)
(* is the last event of the stream, and a generator that has returned has  *)
(* emitted one.                                                            *)
(***************************************************************************)
C1_OneTerminalEventLast ==
    \A p \in reqs :
        /\ \A k \in Indexes(p) :
               IsTerminal(events[p][k]) => k = Len(events[p])
        /\ pc[p] = "end" =>
               \E k \in Indexes(p) : IsTerminal(events[p][k])

(***************************************************************************)
(* C2.  The progress of every emitted event is a number in [0,100], and    *)
(* each event's progress is at least the progress of the event before it.  *)
(***************************************************************************)
C2_ProgressMonotoneBounded ==
    \A p \in reqs :
        /\ \A k \in Indexes(p) :
               /\ IsNumber(events[p][k].progress)
               /\ events[p][k].progress.v \in 0..100
        /\ \A k \in 2..Len(events[p]) :
               events[p][k - 1].progress.v <= events[p][k].progress.v

(***************************************************************************)
(* C3.  After an external command of a run has exited with a non-zero      *)
(* code, no further external command is launched in that run: the command  *)
(* that failed is the last one launched.                                   *)
(***************************************************************************)
C3_NoLaunchAfterFailure ==
    \A p \in reqs :
        \A k \in 1..Len(exited[p]) :
            exited[p][k].rc # 0 => Len(launched[p]) = k

(***************************************************************************)
(* C4.  When preprocessing of an image fails, the run is abandoned at that *)
(* image: the error event is terminal and last, the generator has          *)
(* returned, the images given to the pipeline are those up to the failed   *)
(* one in filename order, no stage-complete event of either group was      *)
(* emitted, no scratch directory was reset and no external command was     *)
(* launched.                                                               *)
(***************************************************************************)
C4_FailedImageAbandonsRun ==
    \A p \in reqs :
        PreprocessFailed(p) =>
            /\ pc[p] = "end"
            /\ IsPreprocessFailure(events[p][Len(events[p])])
            /\ Cardinality({ k \in Indexes(p) :
                               IsTerminal(events[p][k]) }) = 1
            /\ preprocessed[p] = SubSeq(image_paths[p], 1, i[p] + 1)
            /\ \A k \in Indexes(p) : ~HasType(events[p][k], "stage_done")
            /\ reset_k[p] = 0
            /\ scratch \in { FreshScratch, StaleScratch }
            /\ launched[p] = << >>
            /\ ~proc[p].alive

\* an image failed after an earlier image had been preprocessed and while a
\* later image was still to come
C4_Witness ==
    \E p \in reqs :
        /\ PreprocessFailed(p)
        /\ i[p] >= 1
        /\ pc[p] = "end"

(***************************************************************************)
(* C5.  As claimed: in a run of which k >= 1 images fail to decode, at     *)
(* most k-1 successful per-image progress events are emitted before the    *)
(* terminal error.                                                         *)
(***************************************************************************)
NumSuccess(p) ==
    Cardinality({ k \in Indexes(p) : HasType(events[p][k], "preprocess_image") })

C5_AtMostKMinusOne ==
    \A p \in reqs :
        (Cardinality(corrupt) >= 1 /\ pc[p] = "end") =>
            NumSuccess(p) <= Cardinality(corrupt) - 1

(***************************************************************************)
(* C5, amended.  In a run with N images of which k >= 1 fail to decode, at *)
(* most N-k successful per-image progress events are emitted, all of them  *)
(* before the terminal error, which is the last event of the run.          *)
(***************************************************************************)
C5_AtMostNMinusK ==
    \A p \in reqs :
        Cardinality(corrupt) >= 1 =>
            /\ NumSuccess(p) <= NumImages - Cardinality(corrupt)
            /\ pc[p] = "end" => HasType(events[p][Len(events[p])], "error")
            /\ pc[p] \in { "queued", "starting", "collect", "preprocess", "end" }

\* one of two images fails to decode and the other one, first in filename
\* order, has been reported: N-k = 1 success, more than k-1 = 0
C5_Witness ==
    \E p \in reqs :
        /\ Cardinality(corrupt) >= 1
        /\ pc[p] = "end"
        /\ NumSuccess(p) >= 1
        /\ NumSuccess(p) = NumImages - Cardinality(corrupt)

(***************************************************************************)
(* C6.  A done event is emitted only if stereo_fusion exited with code 0   *)
(* and dense/fused.ply exists; when stereo_fusion exited with code 0 and   *)
(* fused.ply is absent, the run ends with the terminal error event and     *)
(* without a done event.                                                   *)
(***************************************************************************)
C6_DoneRequiresFusedPly ==
    \A p \in reqs :
        /\ \A k \in Indexes(p) :
               HasType(events[p][k], "done") =>
                   /\ ExitedWith(p, "stereo_fusion", 0)
                   /\ ChildExists(scratch["dense"], "fused.ply")
        /\ ( /\ pc[p] = "end"
             /\ ExitedWith(p, "stereo_fusion", 0)
             /\ ~ChildExists(scratch["dense"], "fused.ply") ) =>
               /\ HasType(events[p][Len(events[p])], "error")
               /\ events[p][Len(events[p])].message[1] =
                      "fused.ply not found after fusion"
               /\ \A k \in Indexes(p) : ~HasType(events[p][k], "done")

\* stereo_fusion exited with code 0 without writing fused.ply, and the run
\* has ended
C6_Witness ==
    \E p \in reqs :
        /\ pc[p] = "end"
        /\ ExitedWith(p, "stereo_fusion", 0)
        /\ ~ChildExists(scratch["dense"], "fused.ply")
        /\ HasType(events[p][Len(events[p])], "error")

(***************************************************************************)
(* C7.  Model discovery.  Between the first pass and the creation of       *)
(* sparse/0_txt the sparse-model root is as the mapper left it.            *)
(***************************************************************************)
HasSubDir(d) == \E k \in 1..Len(d.entries) : d.entries[k].isdir

\* n is the first directory in the order iterdir() lists d
FirstListedDir(d, n) ==
    \E k \in 1..Len(d.entries) :
        /\ d.entries[k].isdir
        /\ d.entries[k].name = n
        /\ \A j \in 1..(k - 1) : ~d.entries[j].isdir

IsNoModelEvent(ev) ==
    /\ "message" \in DOMAIN ev
    /\ ev.message[1] = "No sparse model found after mapper"

Discovered(p) == pc[p] \in { "discover2", "mkdir_txt" }

(***************************************************************************)
(* C7, amended.  After the mapper succeeds: if the sparse-model root       *)
(* contains at least one subdirectory, the first subdirectory in the order *)
(* the directory enumeration lists them is selected (for subdirectories    *)
(* "1" and "2" that is "1" or "2", whichever is listed first); if it       *)
(* contains none, the path "0" under the root is selected when it exists;  *)
(* if that is absent too, the run ends with a terminal 'no sparse model'   *)
(* error and model_converter and the later commands are not launched.      *)
(***************************************************************************)
C7_FirstListedSelected ==
    \A p \in reqs :
        LET d == scratch["sparse"]
        IN /\ Discovered(p) =>
                 IF HasSubDir(d)
                 THEN /\ model_index[p].py = "str"
                      /\ FirstListedDir(d, model_index[p].v)
                 ELSE /\ model_index[p] = PyStr("0")
                      /\ ChildExists(d, "0")
           /\ \A k \in Indexes(p) :
                  IsNoModelEvent(events[p][k]) =>
                      /\ HasType(events[p][k], "error")
                      /\ k = Len(events[p])
                      /\ pc[p] = "end"
                      /\ ~HasSubDir(d)
                      /\ ~ChildExists(d, "0")
                      /\ Len(launched[p]) = 3
           /\ ( /\ model_index[p] # PyNone
                /\ ~HasSubDir(d)
                /\ ~ChildExists(d, "0") ) =>
                  /\ pc[p] = "end"
                  /\ IsNoModelEvent(events[p][Len(events[p])])

\* C7 as claimed: the above, and for subdirectories {"1","2"} the selected
\* model is "1"
C7_SelectsOneOfOneTwo ==
    /\ C7_FirstListedSelected
    /\ \A p \in reqs :
           ( /\ Discovered(p)
             /\ { n \in EntryNames(scratch["sparse"]) :
                    Dir(n) \in { scratch["sparse"].entries[k] :
                                   k \in 1..Len(scratch["sparse"].entries) } }
                  = { "1", "2" } ) =>
               model_index[p] = PyStr("1")

\* both passes have run on a root that lists "2" before "1", and "2" is
\* selected
C7_Witness ==
    \E p \in reqs :
        /\ pc[p] = "mkdir_txt"
        /\ SubDirs(scratch["sparse"]) = << "2", "1" >>
        /\ model_index[p] = PyStr("2")

(***************************************************************************)
(* C8.  In a run with N >= 1 images that all preprocess successfully, in   *)
(* which each of the seven external commands exits with code 0 and         *)
(* fused.ply exists after fusion, the event stream contains no error event *)
(* and ends with exactly one done event, whose progress is 100.            *)
(***************************************************************************)
IsErrorEvent(ev) == HasType(ev, "error") \/ EvGet(ev, "stage") = "error"

AllSucceeded(p) ==
    /\ pc[p] = "end"
    /\ NumImages >= 1
    /\ NumSuccess(p) = NumImages
    /\ Len(exited[p]) = NumCmds
    /\ \A k \in 1..Len(exited[p]) : exited[p][k].rc = 0
    /\ ChildExists(scratch["dense"], "fused.ply")

C8_SuccessfulRunEndsDone ==
    \A p \in reqs :
        AllSucceeded(p) =>
            /\ \A k \in Indexes(p) : ~IsErrorEvent(events[p][k])
            /\ Cardinality({ k \in Indexes(p) :
                               IsTerminal(events[p][k]) }) = 1
            /\ HasType(events[p][Len(events[p])], "done")
            /\ events[p][Len(events[p])].progress = PyInt(100)

\* two images, seven commands with exit code 0, fused.ply written
C8_Witness ==
    \E p \in reqs :
        /\ AllSucceeded(p)
        /\ NumImages = 2
        /\ quota[p] < MaxLines

(***************************************************************************)
(* C9.  After the batch preprocessor has succeeded on a run with N image   *)
(* files, each of the stage folders the pipeline writes holds exactly N    *)
(* artifacts, one per input image, and the images folder holds the N       *)
(* inputs: no artifact of one image was overwritten by another's.          *)
(***************************************************************************)
C9_OneArtifactPerImagePerStage ==
    \A p \in reqs :
        pc[p] = "pre_complete" =>
            /\ Len(image_paths[p]) = NumImages
            /\ \A f \in OutFolderSet :
                   /\ Cardinality(out[f].files) = NumImages
                   /\ \A n \in { m \in imagesDir : IsImage(m) } :
                          \E a \in out[f].files : a.src = n

(***************************************************************************)
(* C10.  The 'image' reference of every per-image progress event names a   *)
(* file that the image stage pipeline wrote into final_processed for that  *)
(* image.                                                                  *)
(***************************************************************************)
C10_ImageRefIsFinalArtifact ==
    \A p \in reqs :
        \A k \in Indexes(p) :
            HasType(events[p][k], "preprocess_image") =>
                /\ events[p][k].image.folder = "final_processed"
                /\ \E a \in out["final_processed"].files :
                       /\ a.name = events[p][k].image.name
                       /\ a.src = events[p][k].message[2]

(***************************************************************************)
(* The events of one run_cmd invocation.  Only run_cmd emits the status    *)
(* events "Running:" and "finished", the log events, the stage_done events *)
(* of group colmap and the error events "Command exited with code"; the    *)
(* j-th invocation's events are those among them from the j-th "Running:"  *)
(* event up to the next one.                                               *)
(***************************************************************************)
IsRunning(ev) == HasType(ev, "status") /\ ev.message[1] = "Running:"

IsFinished(ev) == HasType(ev, "status") /\ ev.message[1] = "finished"

IsColmapStageDone(ev) == HasType(ev, "stage_done") /\ ev.group = "colmap"

IsExitError(ev) ==
    HasType(ev, "error") /\ ev.message[1] = "Command exited with code"

IsRunnerEvent(ev) ==
    \/ IsRunning(ev)
    \/ HasType(ev, "log")
    \/ IsColmapStageDone(ev)
    \/ IsFinished(ev)
    \/ IsExitError(ev)

\* the indexes of the "Running:" events of request p
RunningAt(p) == { k \in Indexes(p) : IsRunning(events[p][k]) }

\* the invocation whose "Running:" event is events[p][start], R being
\* RunningAt(p): its number, and its events
InvocationNumber(R, start) == Cardinality({ m \in R : m <= start })

Invocation(p, R, start) ==
    LET later == { m \in R : m > start }
        end == IF later = { } THEN Len(events[p])
               ELSE (CHOOSE m \in later : \A o \in later : m <= o) - 1
    IN SelectSeq(SubSeq(events[p], start, end), IsRunnerEvent)

\* the arguments of the invocation that a "Running:" event announces
CallOf(ev) ==
    RunCmdCalls[CHOOSE c \in 1..NumCmds : RunCmdCalls[c].cmd = ev.message[2]]

NumLogs(seg) ==
    Cardinality({ k \in 1..Len(seg) : HasType(seg[k], "log") })

\* what an invocation emits after its log events when the process exited
\* with rc: all of it, or all but the last event while the generator stands
\* between the two events of a successful exit
ExitEventsOk(tail, call, rc, complete) ==
    IF rc # 0
    THEN /\ Len(tail) = 1
         /\ IsExitError(tail[1])
         /\ tail[1].message[3] = rc
    ELSE LET named == Truthy(call.colmap_stage_name)
             sd == IF named THEN 1 ELSE 0
         IN /\ Len(tail) = IF complete THEN sd + 1 ELSE sd
            /\ named =>
                   /\ IsColmapStageDone(tail[1])
                   /\ tail[1].stage_name = call.colmap_stage_name
                   /\ tail[1].progress = call.progress_end
            /\ complete =>
                   /\ IsFinished(tail[sd + 1])
                   /\ tail[sd + 1].progress = call.progress_end

(***************************************************************************)
(* C11.  Each invocation of run_cmd with the arguments progress_start,     *)
(* progress_end and colmap_stage_name emits, in this order: one status     *)
(* event announcing the command with progress progress_start; one log      *)
(* event per line the process printed, in the order printed, each with     *)
(* progress progress_start; then, after exit code 0, a stage_done event    *)
(* with progress progress_end when a stage name was passed, followed by    *)
(* one status "finished" event with progress progress_end, or, after a     *)
(* non-zero exit code, exactly one error event carrying the exit code and  *)
(* nothing after it.  While an invocation is under way its events are a    *)
(* prefix of that sequence; and an event, once emitted, stays in the       *)
(* stream, which grows by one event at a time.                             *)
(***************************************************************************)
StreamGrowsByOne(p) ==
    events'[p] # events[p] =>
        events'[p] = Append(events[p], events'[p][Len(events'[p])])

C11_RunCmdEventOrder ==
  /\ [][\A p \in reqs : StreamGrowsByOne(p)]_vars
  /\ [](\A p \in reqs :
          LET R == RunningAt(p)
          IN \A start \in R :
                LET seg == Invocation(p, R, start)
                    j == InvocationNumber(R, start)
                    call == CallOf(seg[1])
                    n == NumLogs(seg)
                    tail == SubSeq(seg, n + 2, Len(seg))
                IN /\ IsRunning(seg[1])
                   /\ seg[1].progress = call.progress_start
                   /\ \A k \in 1..n :
                          /\ HasType(seg[k + 1], "log")
                          /\ seg[k + 1].message[2] = k
                          /\ seg[k + 1].progress = call.progress_start
                   /\ IF j <= Len(exited[p])
                      THEN /\ exited[p][j].cmd = call.cmd
                           /\ n = exited[p][j].lines
                           /\ ExitEventsOk(tail, call, exited[p][j].rc,
                                           ~(j = Cardinality(R)
                                               /\ pc[p] = "finished"))
                      ELSE /\ tail = << >>
                           /\ j = Cardinality(R)
                           /\ pc[p] \in { "popen", "reading" }
                           /\ pc[p] = "reading" =>
                                  n = proc[p].lines - proc[p].pending)

\* a command printed two lines and exited with 0, and the next command
\* exited with a non-zero code; both invocations are over
C11_Witness ==
    \E p \in reqs :
        /\ Len(exited[p]) = 2
        /\ exited[p][1].lines = 2
        /\ exited[p][1].rc = 0
        /\ exited[p][2].rc # 0
        /\ pc[p] = "end"

(***************************************************************************)
(* C12.  In the step that launches the first external command              *)
(* (feature_extractor) of a run, the three scratch directories database,   *)
(* sparse and dense exist and are empty, whatever they held when the run   *)
(* started; and a step of the reset changes nothing but the one scratch    *)
(* directory it resets: the images folder, the preprocessing folders and   *)
(* the other two scratch directories keep what they hold.                  *)
(***************************************************************************)
ScratchDirSet == { ScratchDirs[k] : k \in 1..Len(ScratchDirs) }

LaunchesFirstCommand(p) ==
    /\ launched[p] = << >>
    /\ launched'[p] = << "feature_extractor" >>

ResetStep(p) == reset_k'[p] = reset_k[p] + 1

C12_ScratchEmptyAtFirstLaunch ==
    [][\A p \in reqs :
           /\ LaunchesFirstCommand(p) =>
                  \A d \in ScratchDirSet :
                      /\ scratch[d].exists
                      /\ scratch[d].entries = << >>
           /\ ResetStep(p) =>
                  /\ imagesDir' = imagesDir
                  /\ out' = out
                  /\ \A d \in ScratchDirSet \ { ScratchDirs[reset_k'[p]] } :
                         scratch'[d] = scratch[d]]_vars

\* feature_extractor has just been launched and the scratch directories are
\* empty, while the preprocessing folders hold their artifacts
C12_Witness ==
    \E p \in reqs :
        /\ launched[p] = << "feature_extractor" >>
        /\ proc[p].alive
        /\ \A d \in ScratchDirSet : scratch[d] = EmptyDir
        /\ \A f \in OutFolderSet : out[f].files # { }

(***************************************************************************)
(* C13.  In every step that launches an external command, the folder       *)
(* final_processed exists and holds at least one file; and when the test   *)
(* of line 250 finds the folder absent, the generator yields the error     *)
(* "final_processed folder missing" as its last event and returns, no      *)
(* external command having been launched.                                  *)
(***************************************************************************)
IsFinalMissing(ev) ==
    HasType(ev, "error") /\ ev.message[1] = "final_processed folder missing"

LaunchStep(p) == Len(launched'[p]) = Len(launched[p]) + 1

IsPreprocessingGroup(ev) ==
    \/ HasType(ev, "preprocess_image")
    \/ HasType(ev, "stage_done") /\ ev.group = "preprocessing"

IsReconstructionGroup(ev) ==
    \/ HasType(ev, "status") /\ ev.message[1] = "Preparing COLMAP workspace..."
    \/ IsRunning(ev)
    \/ IsFinished(ev)
    \/ HasType(ev, "log")
    \/ IsColmapStageDone(ev)

\* the file names the per-image progress events name, in stream order
ImageEventNames(p) ==
    LET evs == SelectSeq(events[p], LAMBDA ev : HasType(ev, "preprocess_image"))
    IN [k \in 1..Len(evs) |-> evs[k].message[2]]

ImageNames == { n \in imagesDir : IsImage(n) }

C14_PreprocessingBeforeReconstruction ==
    [][\A p \in reqs :
           events'[p] # events[p] =>
               LET ev == events'[p][Len(events'[p])]
               IN /\ StreamGrowsByOne(p)
                  /\ IsPreprocessingGroup(ev) =>
                         \A k \in Indexes(p) :
                             ~IsReconstructionGroup(events[p][k])
                  /\ HasType(ev, "preprocess_image") =>
                         LET m == Len(ImageEventNames(p)) + 1
                         IN /\ ev.message[2] \in ImageNames
                            /\ Cardinality({ n \in ImageNames :
                                   StrLess(n, ev.message[2]) }) = m - 1]_vars

\* two images were preprocessed, both groups of stage_done events were
\* emitted and a command printed a line
C14_Witness ==
    \E p \in reqs :
        /\ Len(ImageEventNames(p)) = 2
        /\ \E k \in Indexes(p) : IsColmapStageDone(events[p][k])
        /\ \E k \in Indexes(p) : HasType(events[p][k], "log")

(***************************************************************************)
(* Two stream requests of the same run.  app.run(threaded=True) serves     *)
(* each GET /stream/<run_id> in a thread of its own, and stream_run starts *)
(* a process_generator for each without looking for another one; the two   *)
(* generators share the run directory.                                     *)
(***************************************************************************)
InitTwoStreams ==
    /\ reqs = { 1, 2 }
    /\ imagesDir = { A_JPG }
    /\ corrupt = { }
    /\ out = [f \in OutFolderSet |-> [exists |-> FALSE, files |-> {}]]
    /\ scratch = FreshScratch
    /\ quota = [p \in reqs |-> IF p = 1 THEN 1 ELSE 0]
    /\ InitLocal

\* the second stream is followed up to the exit of its first external
\* command, the first stream to its end
TwoStreamsBound == Len(launched[2]) <= MaxLaunchesSecond

NextTwoStreams ==
    \/ \E p \in reqs : Queued(p) /\ TwoStreamsBound'
    \/ \E p \in reqs : StartPreprocessing(p) /\ TwoStreamsBound'
    \/ \E p \in reqs : CollectImages(p) /\ TwoStreamsBound'
    \/ \E p \in reqs : PreprocessImage(p) /\ TwoStreamsBound'
    \/ \E p \in reqs : PreprocessingComplete(p) /\ TwoStreamsBound'
    \/ \E p \in reqs : EmitStageDone(p) /\ TwoStreamsBound'
    \/ \E p \in reqs : PrepareWorkspace(p) /\ TwoStreamsBound'
    \/ \E p \in reqs : ResetScratchDir(p) /\ TwoStreamsBound'
    \/ \E p \in reqs : CheckFinalProcessed(p) /\ TwoStreamsBound'
    \/ \E p \in reqs : Launch(p) /\ TwoStreamsBound'
    \/ \E p \in reqs : Popen(p) /\ TwoStreamsBound'
    \/ \E p \in reqs : ProcessExits(p) /\ TwoStreamsBound'
    \/ \E p \in reqs : ReadLine(p) /\ TwoStreamsBound'
    \/ \E p \in reqs : ProcessWaited(p) /\ TwoStreamsBound'
    \/ \E p \in reqs : CommandFinished(p) /\ TwoStreamsBound'
    \/ \E p \in reqs : DiscoverFirstPass(p) /\ TwoStreamsBound'
    \/ \E p \in reqs : DiscoverSecondPass(p) /\ TwoStreamsBound'
    \/ \E p \in reqs : MakeConverterOut(p) /\ TwoStreamsBound'
    \/ \E p \in reqs : CheckFused(p) /\ TwoStreamsBound'

SpecTwoStreams == InitTwoStreams /\ [][NextTwoStreams]_vars

(***************************************************************************)
(* C15.  In every interleaving of the stream requests of one run, at most  *)
(* one process_generator operates on the run directory at a time (between  *)
(* listing the images and returning); and no step of the reset of the      *)
(* scratch directories is taken by one generator while another generator   *)
(* of the same run is in its per-image preprocessing loop or has an        *)
(* external process alive.                                                 *)
(***************************************************************************)
Operating(p) == pc[p] \notin { "queued", "starting", "end", "raised" }

C15_ExclusiveRunDirectory ==
    /\ [](\A p, q \in reqs : (Operating(p) /\ Operating(q)) => p = q)
    /\ [][\A p \in reqs :
             ResetStep(p) =>
                 \A q \in reqs \ { p } :
                     /\ pc[q] # "preprocess"
                     /\ ~proc[q].alive]_vars

\* the second half of C15 alone
C15_NoResetUnderOtherStream ==
    [][\A p \in reqs :
           ResetStep(p) =>
               \A q \in reqs \ { p } :
                   /\ pc[q] # "preprocess"
                   /\ ~proc[q].alive]_vars

(***************************************************************************)
(* C16.  The external commands a run has launched are a prefix of the      *)
(* fixed order feature_extractor, exhaustive_matcher, mapper,              *)
(* model_converter, image_undistorter, patch_match_stereo, stereo_fusion   *)
(* (each at most once, none skipped, none out of order); and a command is  *)
(* launched only when the process of every command launched before it has  *)
(* exited and been waited for, so that at most one external process of the *)
(* run is alive.                                                           *)
(***************************************************************************)
CommandOrder ==
    << "feature_extractor", "exhaustive_matcher", "mapper", "model_converter",
       "image_undistorter", "patch_match_stereo", "stereo_fusion" >>

C16_CommandsInFixedOrder ==
    /\ [](\A p \in reqs :
              /\ Len(launched[p]) <= Len(CommandOrder)
              /\ launched[p] = SubSeq(CommandOrder, 1, Len(launched[p])))
    /\ [][\A p \in reqs :
              LaunchStep(p) =>
                  /\ ~proc[p].alive
                  /\ Len(exited[p]) = Len(launched[p])]_vars

\* the seventh command is running, the six before it have exited
C16_Witness ==
    \E p \in reqs :
        /\ launched[p] = CommandOrder
        /\ proc[p].alive
        /\ Len(exited[p]) = 6

(***************************************************************************)
(* C17.  In every run that reaches model conversion, the --input_path of   *)
(* model_converter and the --input_path of image_undistorter are the same  *)
(* path, the one model discovery selected; that path is not the conversion *)
(* output 0_txt; and the path discovery hands on is a subdirectory of the  *)
(* sparse-model root that the root held when discovery ran.                *)
(***************************************************************************)
TakesModel(ev) ==
    IsRunning(ev) /\ ev.message[2] \in { "model_converter", "image_undistorter" }

\* discovery (lines 290-315) hands its selection to model conversion
DiscoveryDone(p) == pc[p] = "discover2" /\ pc'[p] = "mkdir_txt"

C17_InputPathIsDiscoveredModel ==
    /\ [](\A p \in reqs :
              \A k \in Indexes(p) :
                  TakesModel(events[p][k]) =>
                      /\ events[p][k].message[3] = model_index[p]
                      /\ events[p][k].message[3] # PyStr("0_txt"))
    /\ [][\A p \in reqs :
              DiscoveryDone(p) =>
                  \E k \in 1..Len(SubDirs(scratch["sparse"])) :
                      model_index'[p] = PyStr(SubDirs(scratch["sparse"])[k])]_vars

\* C17 but for the kind of the path: what discovery hands on is an entry of
\* the sparse-model root, and both commands are given it
C17_InputPathIsDiscoveredEntry ==
    /\ [](\A p \in reqs :
              \A k \in Indexes(p) :
                  TakesModel(events[p][k]) =>
                      /\ events[p][k].message[3] = model_index[p]
                      /\ events[p][k].message[3] # PyStr("0_txt"))
    /\ [][\A p \in reqs :
              DiscoveryDone(p) =>
                  ChildExists(scratch["sparse"], model_index'[p].v)]_vars

(***************************************************************************)
(* C18.  As claimed: every event a run emits is a record with a 'type'     *)
(* field that is one of status, log, preprocess_image, stage_done, done    *)
(* and error, a 'message' field and a 'progress' field (one stream per     *)
(* run: nothing modifies the sparse-model root between the two discovery   *)
(* passes).                                                                *)
(***************************************************************************)
EventKinds ==
    { "status", "log", "preprocess_image", "stage_done", "done", "error" }

HasKind(ev) == "type" \in DOMAIN ev /\ ev.type \in EventKinds

SpecFair == Init /\ [][Next]_vars /\ WF_vars(Next)

\* the generator has returned and the last event it emitted is terminal
EndedOnTerminal(p) ==
    /\ pc[p] = "end"
    /\ events[p] # << >>
    /\ IsTerminal(events[p][Len(events[p])])

\* readline has returned "" and the process has exited
OutputExhausted(p) ==
    pc[p] = "reading" /\ proc[p].pending = 0 /\ ~proc[p].alive

====
